---------------------------- MODULE Spec2Model ----------------------------
(***************************************************************************)
(* A model of the PT-P710BT label printer driver: the status frame parser  *)
(* (status_message.py, label_printer.py), the raster line producer         *)
(* (label_rasterizer.py) and the print session PtP710LabelPrinter          *)
(* .print_image, one transport operation per step.                         *)
(*                                                                         *)
(* Python indexes bytes from 0 and TLA+ sequences from 1: At(raw, off) is  *)
(* raw[off].  Exceptions are values: an operation either returns or        *)
(* raises, and the session records the exception that left print_image.    *)
(***************************************************************************)
EXTENDS Integers, Sequences, FiniteSets, TLC

VARIABLES
    args_tape_mm,   \* args.tape_mm, the tape of the job (--tape-mm)
    device,         \* the class of the Connector the printer was built on
    connection,     \* the connector's socket or endpoint: "open", "closed"
    deleted,        \* PtP710LabelPrinter.__del__ has run
    pc,             \* position of print_image (or of the parser harness)
    image,          \* argument of print_image: the decoded PNG
    num_copies,     \* argument of print_image
    data,           \* local of print_image: the encoded bitmap
    i,              \* local of print_image: the copy loop index
    line,           \* number of raster lines of copy i already sent
    status,         \* local of print_image: the last StatusMessage returned
    error,          \* the exception that ended print_image, or NoError
    sent,           \* transport: every send() so far, in order
    frame,          \* transport: the bytes the last receive() returned
    nrecv,          \* history: number of receive() calls, saturating
    first,          \* history: result of the first receive() of the session
    completed       \* history: a PrintingCompleted frame was received since
                    \*          the last print command was sent

\* what print_image leaves alone: the job's tape and the connector
caller == <<args_tape_mm, device, connection, deleted>>

\* the arguments, locals and transport traffic of print_image
session == <<pc, image, num_copies, data, i, line, status, error, sent,
             frame, nrecv, first, completed>>

vars == <<caller, session>>

---------------------------------------------------------------------------
(* Bounds of the model. *)

\* largest num_copies tried
MaxCopies == 2
\* widest image tried, in pixel columns
MaxWidth == 2
\* the receive counter stops counting here
MaxRecv == 3
\* longest raw response handed to the parser
MaxFrameLen == 33
\* longest buffer handed to the rasterizer
MaxDataLen == 33

---------------------------------------------------------------------------
(* Bytes. *)

Byte == 0..255

\* b"\x00" * n
Zeros(n) == [j \in 1..n |-> 0]

\* raw[off], Python's 0-based index
At(raw, off) == raw[off + 1]

\* Mode.X in mode, for a one-bit flag X
HasFlag(value, flag) == (value \div flag) % 2 = 1

\* n.to_bytes(4, 'little')
ToBytes4Little(n) ==
    << n % 256, (n \div 256) % 256, (n \div 65536) % 256,
       (n \div 16777216) % 256 >>

\* n.to_bytes(2, 'little')
ToBytes2Little(n) == << n % 256, (n \div 256) % 256 >>

---------------------------------------------------------------------------
(* status_message.py: the enumerations. *)

StatusType_REPLY_TO_STATUS_REQUEST == \h00
StatusType_PRINTING_COMPLETED == \h01
StatusType_ERROR_OCCURRED == \h02
StatusType_TURNED_OFF == \h04
StatusType_NOTIFICATION == \h05
StatusType_PHASE_CHANGE == \h06

Mode_AUTO_CUT == \h40
Mode_MIRROR_PRITING == \h80

MediaType == { \h00, \h01, \h03, \h11, \hFF }

TapeColor ==
    { \h01, \h02, \h03, \h04, \h05, \h06, \h07, \h08, \h09,
      \h20, \h21, \h22, \h23, \h24, \h30, \h31, \h40, \h41,
      \h50, \h51, \h52, \h60, \h61, \h62, \h70, \h90, \h91,
      \hF0, \hF1, \hFF }

TextColor == { \h01, \h02, \h04, \h05, \h08, \h0A, \h62, \hF0, \hF1, \hFF }

NotificationNumber == { \h00, \h01, \h02 }

PhaseType_EDITING_STATE == \h00
PhaseType_PRINTING_STATE == \h01
PhaseType == { PhaseType_EDITING_STATE, PhaseType_PRINTING_STATE }

PhaseNumberEditingState == { \h0000, \h0001 }
PhaseNumberPrintingState == { \h0000, \h0014 }

\* The name of a member of PhaseNumberPrintingState / PhaseNumberEditingState
PhaseNumberPrintingStateName(n) ==
    IF n = \h0000 THEN "PRINTING" ELSE "COVER_OPEN_WHILE_RECEIVING"

PhaseNumberEditingStateName(n) ==
    IF n = \h0000 THEN "EDITING_STATE" ELSE "FEED"

---------------------------------------------------------------------------
(* What an operation that may raise gives back.  outcome is "return" or    *)
(* "raise"; class is the class of the object returned or raised; code is   *)
(* the integer an exception carries (message_length, status_code), or -1;  *)
(* required_height and actual_height are the two integers of an            *)
(* InvalidImageHeightException, -1 in everything else.                     *)

Outcome(outcome, class, code, auto_cut, mirror_printing, name) ==
    [ outcome |-> outcome, class |-> class, code |-> code,
      auto_cut |-> auto_cut, mirror_printing |-> mirror_printing,
      name |-> name, required_height |-> -1, actual_height |-> -1 ]

Raise(class, code) == Outcome("raise", class, code, FALSE, FALSE, "")

\* exceptions.py: InvalidImageHeightException(required_height, actual_height)
InvalidImageHeightException(required_height, actual_height) ==
    [ Raise("InvalidImageHeightException", -1)
        EXCEPT !.required_height = required_height,
               !.actual_height = actual_height ]

Return(class, auto_cut, mirror_printing, name) ==
    Outcome("return", class, -1, auto_cut, mirror_printing, name)

\* no StatusMessage / no exception yet
NoStatus == Outcome("none", "none", -1, FALSE, FALSE, "")

---------------------------------------------------------------------------
(* status_message.py: RawStatusMessage and the StatusMessage classes. *)

\* RawStatusMessage with the guard len < 32: a longer response gets through
RawStatusMessage_ShortOnly(message) ==
    IF Len(message) < 32
    THEN [ raised |-> TRUE, message_length |-> Len(message) ]
    ELSE [ raised |-> FALSE,
           error_information1 |-> At(message, 8),
           error_information2 |-> At(message, 9),
           media_width |-> At(message, 10),
           media_type |-> At(message, 11),
           mode |-> At(message, 15),
           media_length |-> At(message, 17),
           status_type |-> At(message, 18),
           phase_type |-> At(message, 19),
           phase_number |-> At(message, 20) * 256 + At(message, 21),
           notification_number |-> At(message, 22),
           tape_color |-> At(message, 24),
           text_color |-> At(message, 25),
           hardware_settings |-> At(message, 26) ]

\* RawStatusMessage.__init__: the length guard, then the fields
RawStatusMessage(message) ==
    IF Len(message) # 32
    THEN [ raised |-> TRUE, message_length |-> Len(message) ]
    ELSE [ raised |-> FALSE,
           error_information1 |-> At(message, 8),
           error_information2 |-> At(message, 9),
           media_width |-> At(message, 10),
           media_type |-> At(message, 11),
           mode |-> At(message, 15),
           media_length |-> At(message, 17),
           status_type |-> At(message, 18),
           phase_type |-> At(message, 19),
           phase_number |-> At(message, 20) * 256 + At(message, 21),
           notification_number |-> At(message, 22),
           tape_color |-> At(message, 24),
           text_color |-> At(message, 25),
           hardware_settings |-> At(message, 26) ]

\* ReplyToStatusRequest.__init__: the three enum lookups raise ValueError
ReplyToStatusRequest(raw) ==
    IF raw.media_type \notin MediaType THEN Raise("ValueError", raw.media_type)
    ELSE IF raw.tape_color \notin TapeColor
    THEN Raise("ValueError", raw.tape_color)
    ELSE IF raw.text_color \notin TextColor
    THEN Raise("ValueError", raw.text_color)
    ELSE Return("ReplyToStatusRequest", FALSE, FALSE, "")

\* PrintingCompleted with Mode looked up like an IntEnum: a value that is
\* no union of its two members raises ValueError
PrintingCompleted_StrictMode(raw) ==
    IF raw.mode \notin { 0, Mode_AUTO_CUT, Mode_MIRROR_PRITING,
                         Mode_AUTO_CUT + Mode_MIRROR_PRITING }
    THEN Raise("ValueError", raw.mode)
    ELSE Return("PrintingCompleted", HasFlag(raw.mode, Mode_AUTO_CUT),
                HasFlag(raw.mode, Mode_MIRROR_PRITING), "")

\* PrintingCompleted.__init__: Mode is an IntFlag and takes any value
PrintingCompleted(raw) ==
    Return("PrintingCompleted", HasFlag(raw.mode, Mode_AUTO_CUT),
           HasFlag(raw.mode, Mode_MIRROR_PRITING), "")

\* Notification.__init__
Notification(raw) ==
    IF raw.notification_number \notin NotificationNumber
    THEN Raise("ValueError", raw.notification_number)
    ELSE Return("Notification", FALSE, FALSE, "")

\* PhaseChange with one enumeration of phase numbers for both phase types
PhaseChange_SharedNumbers(raw) ==
    IF raw.phase_type \notin PhaseType
    THEN Raise("ValueError", raw.phase_type)
    ELSE IF raw.phase_number
                \notin PhaseNumberPrintingState \cup PhaseNumberEditingState
    THEN Raise("ValueError", raw.phase_number)
    ELSE Return("PhaseChange", FALSE, FALSE,
                IF raw.phase_number = \h0014
                THEN "COVER_OPEN_WHILE_RECEIVING"
                ELSE IF raw.phase_number = \h0001 THEN "FEED"
                ELSE IF raw.phase_type = PhaseType_PRINTING_STATE
                THEN "PRINTING" ELSE "EDITING_STATE")

\* PhaseChange.__init__
PhaseChange(raw) ==
    IF raw.phase_type \notin PhaseType
    THEN Raise("ValueError", raw.phase_type)
    ELSE IF raw.phase_type = PhaseType_PRINTING_STATE
    THEN IF raw.phase_number \notin PhaseNumberPrintingState
         THEN Raise("ValueError", raw.phase_number)
         ELSE Return("PhaseChange", FALSE, FALSE,
                     PhaseNumberPrintingStateName(raw.phase_number))
    ELSE IF raw.phase_type = PhaseType_EDITING_STATE
    THEN IF raw.phase_number \notin PhaseNumberEditingState
         THEN Raise("ValueError", raw.phase_number)
         ELSE Return("PhaseChange", FALSE, FALSE,
                     PhaseNumberEditingStateName(raw.phase_number))
    ELSE Raise("RuntimeError", raw.phase_number)

---------------------------------------------------------------------------
(* label_printer.py: _receive_status_information_response, from the bytes  *)
(* the transport handed back to the StatusMessage returned or the          *)
(* exception raised.                                                       *)

\* the chain of tests handing back a message when no test matches
ErrorOccurred_UnknownReturned(raw) ==
    IF raw.error_information1 = \h01 THEN Raise("NoMediaError", -1)
    ELSE IF raw.error_information1 = \h04 THEN Raise("CutterJamError", -1)
    ELSE IF raw.error_information1 = \h08 THEN Raise("WeakBatteriesError", -1)
    ELSE IF raw.error_information1 = \h40
    THEN Raise("HighVoltageAdapterError", -1)
    ELSE IF raw.error_information2 = \h01 THEN Raise("WrongMediaError", -1)
    ELSE IF raw.error_information2 = \h10 THEN Raise("CoverOpenError", -1)
    ELSE IF raw.error_information2 = \h20 THEN Raise("OverheatingError", -1)
    ELSE Return("ErrorOccurred", FALSE, FALSE, "")

\* the chain of equality tests on the two error bytes (lines 134-148)
ErrorOccurred(raw) ==
    IF raw.error_information1 = \h01 THEN Raise("NoMediaError", -1)
    ELSE IF raw.error_information1 = \h04 THEN Raise("CutterJamError", -1)
    ELSE IF raw.error_information1 = \h08 THEN Raise("WeakBatteriesError", -1)
    ELSE IF raw.error_information1 = \h40
    THEN Raise("HighVoltageAdapterError", -1)
    ELSE IF raw.error_information2 = \h01 THEN Raise("WrongMediaError", -1)
    ELSE IF raw.error_information2 = \h10 THEN Raise("CoverOpenError", -1)
    ELSE IF raw.error_information2 = \h20 THEN Raise("OverheatingError", -1)
    ELSE Raise("UnknownStatusMessageError", -1)

\* Dispatch without the test for an unknown status type: whatever is not
\* one of the five other types is taken for ErrorOccurred
Dispatch_NoCodeCheck(raw) ==
    IF raw.status_type = StatusType_TURNED_OFF
    THEN Raise("DeviceTurnedOffException", -1)
    ELSE IF raw.status_type = StatusType_REPLY_TO_STATUS_REQUEST
    THEN ReplyToStatusRequest(raw)
    ELSE IF raw.status_type = StatusType_PRINTING_COMPLETED
    THEN PrintingCompleted(raw)
    ELSE IF raw.status_type = StatusType_NOTIFICATION
    THEN Notification(raw)
    ELSE IF raw.status_type = StatusType_PHASE_CHANGE
    THEN PhaseChange(raw)
    ELSE ErrorOccurred(raw)

\* the dispatch on raw.status_type (lines 121-133)
Dispatch(raw) ==
    IF raw.status_type = StatusType_TURNED_OFF
    THEN Raise("DeviceTurnedOffException", -1)
    ELSE IF raw.status_type = StatusType_REPLY_TO_STATUS_REQUEST
    THEN ReplyToStatusRequest(raw)
    ELSE IF raw.status_type = StatusType_PRINTING_COMPLETED
    THEN PrintingCompleted(raw)
    ELSE IF raw.status_type = StatusType_NOTIFICATION
    THEN Notification(raw)
    ELSE IF raw.status_type = StatusType_PHASE_CHANGE
    THEN PhaseChange(raw)
    ELSE IF raw.status_type # StatusType_ERROR_OCCURRED
    THEN Raise("InvalidStatusCodeException", raw.status_type)
    ELSE ErrorOccurred(raw)

\* response is what self._device.receive(32) returned
ReceiveStatusInformationResponse(response) ==
    LET raw == RawStatusMessage(response)
    IN  IF raw.raised
        THEN Raise("InvalidStatusResponseException", raw.message_length)
        ELSE Dispatch(raw)

---------------------------------------------------------------------------
(* label_rasterizer.py: rasterize.  packbits.encode is the PackBits        *)
(* encoder of the packbits package (setup.py pins packbits==0.6): one pass *)
(* over the bytes in state RAW (collecting literals in buf) or RLE         *)
(* (counting a repeat).                                                    *)

CHUNK_SIZE == 16
ZERO_CHUNK == Zeros(CHUNK_SIZE)
RASTER_COMMAND == << \h47 >>
ZERO_COMMAND == << \h5A >>
MAX_LENGTH == 127

\* finish_raw() whose control byte is the count, not the count less one
FinishRaw_CountByte(result, buf) ==
    IF Len(buf) = 0 THEN result ELSE (result \o << Len(buf) >>) \o buf

\* finish_raw(): flush the literals collected so far
FinishRaw(result, buf) ==
    IF Len(buf) = 0 THEN result ELSE (result \o << Len(buf) - 1 >>) \o buf

\* finish_rle() whose control byte counts one repeat too many
FinishRle_OneTooMany(result, repeat_count, byte) ==
    result \o << 256 - repeat_count, byte >>

\* finish_rle(): emit one repeat run
FinishRle(result, repeat_count, byte) ==
    result \o << 256 - (repeat_count - 1), byte >>

RECURSIVE PackBitsLoop(_, _, _, _, _, _)
\* the while loop of packbits.encode and the flush after it; pos is 0-based
PackBitsLoop(d, pos, state, repeat_count, buf, result) ==
    IF pos >= Len(d) - 1
    THEN IF state = "RAW"
         THEN FinishRaw(result, Append(buf, At(d, pos)))
         ELSE FinishRle(result, repeat_count + 1, At(d, pos))
    ELSE IF At(d, pos) = At(d, pos + 1)
    THEN IF state = "RAW"
         THEN PackBitsLoop(d, pos + 1, "RLE", 1, << >>, FinishRaw(result, buf))
         ELSE IF repeat_count = MAX_LENGTH
         THEN PackBitsLoop(d, pos + 1, "RLE", 1, buf,
                           FinishRle(result, repeat_count, At(d, pos)))
         ELSE PackBitsLoop(d, pos + 1, "RLE", repeat_count + 1, buf, result)
    ELSE IF state = "RLE"
         THEN PackBitsLoop(d, pos + 1, "RAW", 0, buf,
                           FinishRle(result, repeat_count + 1, At(d, pos)))
         ELSE IF Len(buf) = MAX_LENGTH
         THEN PackBitsLoop(d, pos + 1, "RAW", repeat_count,
                           << At(d, pos) >>, FinishRaw(result, buf))
         ELSE PackBitsLoop(d, pos + 1, "RAW", repeat_count,
                           Append(buf, At(d, pos)), result)

\* packbits.encode that never looks for a repeat: one literal run
PackBitsEncode_LiteralOnly(d) ==
    IF Len(d) = 0 THEN d ELSE << Len(d) - 1 >> \o d

\* packbits.encode(data)
PackBitsEncode(d) ==
    IF Len(d) = 0 THEN d
    ELSE IF Len(d) = 1 THEN << 0 >> \o d
    ELSE PackBitsLoop(d, 0, "RAW", 0, << >>, << >>)

\* encoded_image_data[i:i + CHUNK_SIZE]
Chunk(d, off) ==
    SubSeq(d, off + 1, IF off + CHUNK_SIZE < Len(d) THEN off + CHUNK_SIZE
                       ELSE Len(d))

\* the loop body taking every chunk without a non-zero byte, whatever its
\* length, for the zero command
RasterLine_NoNonZero(chunk) ==
    IF \A j \in 1..Len(chunk) : chunk[j] = 0
    THEN ZERO_COMMAND
    ELSE LET packed_chunk == PackBitsEncode(chunk)
         IN  (RASTER_COMMAND \o ToBytes2Little(Len(packed_chunk)))
                 \o packed_chunk

\* the loop body appending the packed chunk once for each time it is packed
RasterLine_PackedTwice(chunk) ==
    IF chunk = ZERO_CHUNK
    THEN ZERO_COMMAND
    ELSE LET packed_chunk == PackBitsEncode(chunk)
         IN  ((RASTER_COMMAND \o ToBytes2Little(Len(packed_chunk)))
                 \o packed_chunk) \o PackBitsEncode(chunk)

\* the loop body testing the first byte alone for the zero command
RasterLine_LeadingZero(chunk) ==
    IF Len(chunk) > 0 /\ chunk[1] = 0
    THEN ZERO_COMMAND
    ELSE LET packed_chunk == PackBitsEncode(chunk)
         IN  (RASTER_COMMAND \o ToBytes2Little(Len(packed_chunk)))
                 \o packed_chunk

\* the loop body announcing the length of the chunk, not of the packed chunk
RasterLine_ChunkLength(chunk) ==
    IF chunk = ZERO_CHUNK
    THEN ZERO_COMMAND
    ELSE LET packed_chunk == PackBitsEncode(chunk)
         IN  (RASTER_COMMAND \o ToBytes2Little(Len(chunk)))
                 \o packed_chunk

\* the body of rasterize's loop: the line yielded for one chunk
RasterLine(chunk) ==
    IF chunk = ZERO_CHUNK
    THEN ZERO_COMMAND
    ELSE LET packed_chunk == PackBitsEncode(chunk)
         IN  (RASTER_COMMAND \o ToBytes2Little(Len(packed_chunk)))
                 \o packed_chunk

\* rasterize(encoded_image_data), as the list of the lines it yields
rasterize(d) ==
    [ n \in 1..((Len(d) + CHUNK_SIZE - 1) \div CHUNK_SIZE) |->
        RasterLine(Chunk(d, (n - 1) * CHUNK_SIZE)) ]

---------------------------------------------------------------------------
(* media_info.py and label_rasterizer.py: encode_png.  An image is         *)
(* [height, columns]: columns[c] maps some rows of column c to their alpha *)
(* value, every other pixel of the column having alpha 0.                  *)

TAPE_MM_TO_PX ==
    (24 :> 128) @@ (18 :> 112) @@ (12 :> 70) @@ (9 :> 50) @@ (6 :> 32)
        @@ (4 :> 24)

\* the margin table with the margin of 12 mm tape one pixel short
TAPE_MM_TO_MARGIN_PX_Typo ==
    (24 :> 0) @@ (18 :> 8) @@ (12 :> 28) @@ (9 :> 39) @@ (6 :> 48)
        @@ (4 :> 52)

TAPE_MM_TO_MARGIN_PX ==
    (24 :> 0) @@ (18 :> 8) @@ (12 :> 29) @@ (9 :> 39) @@ (6 :> 48)
        @@ (4 :> 52)

\* row[3::4] of row r at column c
AlphaAt(img, r, c) ==
    LET col == img.columns[c + 1]
    IN  IF r \in DOMAIN col THEN col[r] ELSE 0

\* line = margin + list(line) + margin, at position p of column c
LineValue(img, tape_mm, c, p) ==
    LET m == TAPE_MM_TO_MARGIN_PX[tape_mm]
    IN  IF p < m \/ p >= m + img.height THEN 0 ELSE AlphaAt(img, p - m, c)

RECURSIVE PackByte_LsbFirst(_, _, _, _, _)
\* the loop over j setting bit j, the least significant bit first
PackByte_LsbFirst(img, tape_mm, c, off, j) ==
    IF j = 8 THEN 0
    ELSE (IF LineValue(img, tape_mm, c, off + j) > 0 THEN 2 ^ j ELSE 0)
             + PackByte_LsbFirst(img, tape_mm, c, off, j + 1)

RECURSIVE PackByte(_, _, _, _, _)
\* the loop over j: byte |= 1 << (7 - j) where value > 0, from bit j on
PackByte(img, tape_mm, c, off, j) ==
    IF j = 8 THEN 0
    ELSE (IF LineValue(img, tape_mm, c, off + j) > 0 THEN 2 ^ (7 - j) ELSE 0)
             + PackByte(img, tape_mm, c, off, j + 1)

\* len(line)
LineLen(img, tape_mm) == img.height + 2 * TAPE_MM_TO_MARGIN_PX[tape_mm]

\* the bytes appended for column c
PackLine(img, tape_mm, c) ==
    [ b \in 1..((LineLen(img, tape_mm) + 7) \div 8) |->
        PackByte(img, tape_mm, c, (b - 1) * 8, 0) ]

RECURSIVE PackColumns(_, _, _)
\* the loop over the columns, from column c on
PackColumns(img, tape_mm, c) ==
    IF c >= Len(img.columns) THEN << >>
    ELSE PackLine(img, tape_mm, c) \o PackColumns(img, tape_mm, c + 1)

\* encode_png refusing only an image taller than the tape
encode_png_TallerOnly(img, tape_mm) ==
    IF img.height > TAPE_MM_TO_PX[tape_mm]
    THEN [ raised |-> "InvalidImageHeightException",
           required_height |-> TAPE_MM_TO_PX[tape_mm],
           actual_height |-> img.height, buffer |-> << >> ]
    ELSE IF Len(img.columns) > 0 /\ LineLen(img, tape_mm) % 8 # 0
    THEN [ raised |-> "IndexError", required_height |-> -1,
           actual_height |-> -1, buffer |-> << >> ]
    ELSE [ raised |-> "", required_height |-> -1, actual_height |-> -1,
           buffer |-> PackColumns(img, tape_mm, 0) ]

\* encode_png(data, tape_mm): the buffer returned or the exception raised;
\* line[i + j] raises IndexError when a line is not a whole number of bytes
encode_png(img, tape_mm) ==
    IF img.height # TAPE_MM_TO_PX[tape_mm]
    THEN [ raised |-> "InvalidImageHeightException",
           required_height |-> TAPE_MM_TO_PX[tape_mm],
           actual_height |-> img.height, buffer |-> << >> ]
    ELSE IF Len(img.columns) > 0 /\ LineLen(img, tape_mm) % 8 # 0
    THEN [ raised |-> "IndexError", required_height |-> -1,
           actual_height |-> -1, buffer |-> << >> ]
    ELSE [ raised |-> "", required_height |-> -1, actual_height |-> -1,
           buffer |-> PackColumns(img, tape_mm, 0) ]

---------------------------------------------------------------------------
(* The inputs: the images handed to print_image and the responses the      *)
(* transport hands back (connectors.py: receive returns whatever the       *)
(* device sent, a short read included).                                    *)

\* a 32-byte response with the given bytes at the given offsets, 0 elsewhere
StatusFrame(fields) ==
    [ j \in 1..32 |-> IF (j - 1) \in DOMAIN fields THEN fields[j - 1] ELSE 0 ]

ReplyFrame ==
    StatusFrame((18 :> \h00) @@ (10 :> 24) @@ (11 :> \h01) @@ (24 :> \h01)
                    @@ (25 :> \h08))
\* a reply whose tape colour byte is no member of TapeColor
OddReplyFrame == StatusFrame((18 :> \h00) @@ (11 :> \h01) @@ (25 :> \h08))
CompletedFrame == StatusFrame((18 :> \h01) @@ (15 :> \h40))
NoMediaFrame == StatusFrame((18 :> \h02) @@ (8 :> \h01))
CoverOpenFrame == StatusFrame((18 :> \h02) @@ (9 :> \h10))
\* an error frame with two flags of error_information1 set
TwoFlagsFrame == StatusFrame((18 :> \h02) @@ (8 :> \h05))
TurnedOffFrame == StatusFrame((18 :> \h04))
NotificationFrame == StatusFrame((18 :> \h05) @@ (22 :> \h01))
PhaseChangeFrame == StatusFrame((18 :> \h06) @@ (19 :> \h01))
BadCodeFrame == StatusFrame((18 :> \h03))
ShortFrame == Zeros(5)

\* what the printer may answer during a session
PrinterFrames ==
    { ReplyFrame, OddReplyFrame, CompletedFrame, NoMediaFrame, CoverOpenFrame,
      TwoFlagsFrame, TurnedOffFrame, NotificationFrame, PhaseChangeFrame, BadCodeFrame,
      ShortFrame }

\* columns of an image: blank, and some opaque pixels
ColumnPatterns ==
    { << >>,
      (0 :> 255) @@ (1 :> 0) @@ (9 :> 1) @@ (10 :> 1) @@ (127 :> 255) }

RECURSIVE ColumnSeqs(_)
\* every sequence of n columns
ColumnSeqs(n) ==
    IF n = 0 THEN { << >> }
    ELSE { Append(cs, c) : cs \in ColumnSeqs(n - 1), c \in ColumnPatterns }

\* the tapes a job may name: choices=TAPE_MM_TO_PX.keys()
TapeWidths == DOMAIN TAPE_MM_TO_PX

\* the images tried: every width up to MaxWidth at the height of 24 mm tape,
\* and one image of the height of every tape and of a height of no tape
Images ==
    { [ height |-> 128, columns |-> cs ] :
        cs \in UNION { ColumnSeqs(w) : w \in 0..MaxWidth } }
    \cup { [ height |-> h,
              columns |-> << (0 :> 255) @@ (1 :> 0) @@ (h - 1 :> 1) >> ] :
             h \in { TAPE_MM_TO_PX[t] : t \in TapeWidths } \cup { 100 } }

\* the connectors main() builds the printer on
Connectors == { "BluetoothConnector", "UsbConnector" }

---------------------------------------------------------------------------
(* label_printer.py: PtP710LabelPrinter.print_image, one call per step.    *)

\* self._device.send(payload)
Send(payload) == sent' = Append(sent, payload)

\* self._device.receive(32) handing back f, and the two history variables
Receive(f) ==
    /\ frame' = f
    /\ nrecv' = IF nrecv < MaxRecv THEN nrecv + 1 ELSE nrecv
    /\ first' = IF nrecv = 0 THEN ReceiveStatusInformationResponse(f)
                ELSE first

\* print_image invalidating before it encodes the image
EncodePng_AfterInvalidate ==
    /\ pc = "encode_png"
    /\ Send(Zeros(100))
    /\ LET r == encode_png(image, args_tape_mm)
       IN  IF r.raised # ""
           THEN /\ pc' = "raised"
                /\ error' = IF r.raised = "InvalidImageHeightException"
                            THEN InvalidImageHeightException(
                                     r.required_height, r.actual_height)
                            ELSE Raise(r.raised, -1)
                /\ data' = data
           ELSE /\ pc' = "send_initialize"
                /\ data' = r.buffer
                /\ error' = error
    /\ UNCHANGED <<caller, image, num_copies, i, line, status, frame, nrecv,
                   first, completed>>

\* line 151: data = encode_png(image).  print_image hands encode_png the
\* image alone although encode_png takes the tape as well: the tape is the
\* one the job was started with (--tape-mm)
EncodePng ==
    /\ pc = "encode_png"
    /\ LET r == encode_png(image, args_tape_mm)
       IN  IF r.raised # ""
           THEN /\ pc' = "raised"
                /\ error' = IF r.raised = "InvalidImageHeightException"
                            THEN InvalidImageHeightException(
                                     r.required_height, r.actual_height)
                            ELSE Raise(r.raised, -1)
                /\ data' = data
           ELSE /\ pc' = "send_invalidate"
                /\ data' = r.buffer
                /\ error' = error
    /\ UNCHANGED <<caller, image, num_copies, i, line, status, sent, frame, nrecv,
                   first, completed>>

\* a _send_* method that sends payloads, one send() each, and returns
SendCommand(here, payloads, next) ==
    /\ pc = here
    /\ sent' = sent \o payloads
    /\ pc' = next
    /\ UNCHANGED <<caller, image, num_copies, data, i, line, status, error, frame,
                   nrecv, first, completed>>

\* line 153
SendInvalidate ==
    SendCommand("send_invalidate", << Zeros(100) >>, "send_initialize")

\* line 154
SendInitialize ==
    SendCommand("send_initialize", << << \h1B, \h40 >> >>,
                "send_status_information_request")

\* the status request whose answer is not waited for
SendStatusInformationRequest_NoReceive ==
    SendCommand("send_status_information_request",
                << << \h1B, \h69, \h53 >> >>,
                "send_switch_dynamic_command_mode")

\* line 155
SendStatusInformationRequest ==
    SendCommand("send_status_information_request",
                << << \h1B, \h69, \h53 >> >>,
                "receive_status_information_response")

\* ReceiveInitialStatus that prints the error and carries on
ReceiveInitialStatus_Continue ==
    /\ pc = "receive_status_information_response"
    /\ \E f \in PrinterFrames :
        /\ Receive(f)
        /\ LET r == ReceiveStatusInformationResponse(f)
           IN  IF r.outcome = "raise"
               THEN /\ pc' = "send_switch_dynamic_command_mode"
                    /\ error' = r
                    /\ status' = status
               ELSE /\ pc' = "send_switch_dynamic_command_mode"
                    /\ status' = r
                    /\ error' = error
    /\ UNCHANGED <<caller, image, num_copies, data, i, line, sent, completed>>

\* ReceiveInitialStatus that takes nothing but a ReplyToStatusRequest
ReceiveInitialStatus_ReplyOnly ==
    /\ pc = "receive_status_information_response"
    /\ \E f \in PrinterFrames :
        /\ Receive(f)
        /\ LET r == ReceiveStatusInformationResponse(f)
           IN  IF r.outcome = "raise"
               THEN /\ pc' = "raised"
                    /\ error' = r
                    /\ status' = status
               ELSE IF r.class # "ReplyToStatusRequest"
               THEN /\ pc' = "raised"
                    /\ error' = Raise("RuntimeError", -1)
                    /\ status' = r
               ELSE /\ pc' = "send_switch_dynamic_command_mode"
                    /\ status' = r
                    /\ error' = error
    /\ UNCHANGED <<caller, image, num_copies, data, i, line, sent, completed>>

\* lines 156-157: the first status response; whatever is returned is kept
ReceiveInitialStatus ==
    /\ pc = "receive_status_information_response"
    /\ \E f \in PrinterFrames :
        /\ Receive(f)
        /\ LET r == ReceiveStatusInformationResponse(f)
           IN  IF r.outcome = "raise"
               THEN /\ pc' = "raised"
                    /\ error' = r
                    /\ status' = status
               ELSE /\ pc' = "send_switch_dynamic_command_mode"
                    /\ status' = r
                    /\ error' = error
    /\ UNCHANGED <<caller, image, num_copies, data, i, line, sent, completed>>

\* line 158
SendSwitchDynamicCommandMode ==
    SendCommand("send_switch_dynamic_command_mode",
                << << \h1B, \h69, \h61, \h01 >> >>,
                "send_switch_automatic_status_notification_mode")

\* line 159
SendSwitchAutomaticStatusNotificationMode ==
    SendCommand("send_switch_automatic_status_notification_mode",
                << << \h1B, \h69, \h21, \h00 >> >>,
                "send_print_information_command")

\* line 160: _send_print_information_command(len(data)), three send() calls
\* the print information command announcing the byte count of the data
SendPrintInformationCommand_ByteCount ==
    SendCommand("send_print_information_command",
                << << \h1B, \h69, \h7A, \h84, \h00, \h18, \h00 >>,
                   ToBytes4Little(Len(data)),
                   << \h00, \h00 >> >>,
                "send_various_mode_settings")

SendPrintInformationCommand ==
    SendCommand("send_print_information_command",
                << << \h1B, \h69, \h7A, \h84, \h00, \h18, \h00 >>,
                   ToBytes4Little(Len(data) \div 16),
                   << \h00, \h00 >> >>,
                "send_various_mode_settings")

\* line 161: two send() calls
SendVariousModeSettings ==
    SendCommand("send_various_mode_settings",
                << << \h1B, \h69, \h4D >>, << Mode_AUTO_CUT >> >>,
                "send_advanced_mode_settings")

\* line 162
SendAdvancedModeSettings ==
    SendCommand("send_advanced_mode_settings",
                << << \h1B, \h69, \h4B, \h08 >> >>,
                "send_specify_margin_amount")

\* line 163
SendSpecifyMarginAmount ==
    SendCommand("send_specify_margin_amount",
                << << \h1B, \h69, \h64, \h00, \h00 >> >>,
                "send_select_compression_mode")

\* line 164; the loop variable starts at 0
SendSelectCompressionMode ==
    SendCommand("send_select_compression_mode", << << \h4D, \h02 >> >>,
                "for_copy")

\* a loop that runs its body once before testing the number of copies
ForCopy_BodyFirst ==
    /\ pc = "for_copy"
    /\ pc' = IF i < num_copies \/ i = 0 THEN "send_raster_data" ELSE "done"
    /\ UNCHANGED <<caller, image, num_copies, data, i, line, status, error, sent,
                   frame, nrecv, first, completed>>

\* line 166: for i in range(0, num_copies), i already advanced
ForCopy ==
    /\ pc = "for_copy"
    /\ pc' = IF i < num_copies THEN "send_raster_data" ELSE "done"
    /\ UNCHANGED <<caller, image, num_copies, data, i, line, status, error, sent,
                   frame, nrecv, first, completed>>

\* line 168: _send_raster_data(data), the next line of rasterize(data)
SendRasterData ==
    /\ pc = "send_raster_data"
    /\ IF line < Len(rasterize(data))
       THEN /\ Send(rasterize(data)[line + 1])
            /\ line' = line + 1
            /\ pc' = pc
       ELSE /\ sent' = sent
            /\ line' = 0
            /\ pc' = "send_print_command"
    /\ UNCHANGED <<caller, image, num_copies, data, i, status, error, frame, nrecv,
                   first, completed>>

\* SendPrintCommand with the test turned round: the feed after the first copy
SendPrintCommand_FeedFirst ==
    /\ pc = "send_print_command"
    /\ Send(IF i = 0 THEN << \h1A >> ELSE << \h0C >>)
    /\ completed' = FALSE
    /\ pc' = "while_not_completed"
    /\ UNCHANGED <<caller, image, num_copies, data, i, line, status, error, frame,
                   nrecv, first>>

\* lines 169-172: print and feed after the last copy, print alone otherwise
SendPrintCommand ==
    /\ pc = "send_print_command"
    /\ Send(IF i = num_copies - 1 THEN << \h1A >> ELSE << \h0C >>)
    /\ completed' = FALSE
    /\ pc' = "while_not_completed"
    /\ UNCHANGED <<caller, image, num_copies, data, i, line, status, error, frame,
                   nrecv, first>>

\* line 173: isinstance(status, PrintingCompleted)
IsPrintingCompleted(s) == s.outcome = "return" /\ s.class = "PrintingCompleted"

\* WhileNotCompleted that swallows the exception and polls again
WhileNotCompleted_Retry ==
    /\ pc = "while_not_completed"
    /\ ~IsPrintingCompleted(status)
    /\ \E f \in PrinterFrames :
        /\ Receive(f)
        /\ LET r == ReceiveStatusInformationResponse(f)
           IN  IF r.outcome = "raise"
               THEN /\ pc' = pc
                    /\ error' = r
                    /\ status' = status
                    /\ completed' = completed
               ELSE /\ pc' = pc
                    /\ status' = r
                    /\ error' = error
                    /\ completed' = (completed \/ IsPrintingCompleted(r))
    /\ UNCHANGED <<caller, image, num_copies, data, i, line, sent>>

\* lines 173-175: the loop body, one more status response
WhileNotCompleted ==
    /\ pc = "while_not_completed"
    /\ ~IsPrintingCompleted(status)
    /\ \E f \in PrinterFrames :
        /\ Receive(f)
        /\ LET r == ReceiveStatusInformationResponse(f)
           IN  IF r.outcome = "raise"
               THEN /\ pc' = "raised"
                    /\ error' = r
                    /\ status' = status
                    /\ completed' = completed
               ELSE /\ pc' = pc
                    /\ status' = r
                    /\ error' = error
                    /\ completed' = (completed \/ IsPrintingCompleted(r))
    /\ UNCHANGED <<caller, image, num_copies, data, i, line, sent>>

\* line 173 false: the wait is over, on to the next copy
CopyCompleted ==
    /\ pc = "while_not_completed"
    /\ IsPrintingCompleted(status)
    /\ i' = i + 1
    /\ pc' = "for_copy"
    /\ UNCHANGED <<caller, image, num_copies, data, line, status, error, sent, frame,
                   nrecv, first, completed>>

\* lines 34-35 and connectors.py 41-43, 104-105: print_image is over, the
\* printer object goes away and with it the connector, whose __del__ closes
\* the socket (BluetoothConnector) or does nothing (UsbConnector)
Del ==
    /\ pc \in { "done", "raised" }
    /\ ~deleted
    /\ deleted' = TRUE
    /\ connection' = IF device = "BluetoothConnector" THEN "closed"
                     ELSE connection
    /\ UNCHANGED <<args_tape_mm, device, session>>

\* main(): the connector is built and connected, then
\* PtP710LabelPrinter(device).print_image(image, num_copies) is called
Init ==
    /\ args_tape_mm \in TapeWidths
    /\ device \in Connectors
    /\ connection = "open"
    /\ deleted = FALSE
    /\ pc = "encode_png"
    /\ image \in Images
    /\ num_copies \in (-1)..MaxCopies
    /\ data = << >>
    /\ i = 0
    /\ line = 0
    /\ status = NoStatus
    /\ error = NoStatus
    /\ sent = << >>
    /\ frame = << >>
    /\ nrecv = 0
    /\ first = NoStatus
    /\ completed = FALSE

Next ==
    \/ EncodePng
    \/ SendInvalidate
    \/ SendInitialize
    \/ SendStatusInformationRequest
    \/ ReceiveInitialStatus
    \/ SendSwitchDynamicCommandMode
    \/ SendSwitchAutomaticStatusNotificationMode
    \/ SendPrintInformationCommand
    \/ SendVariousModeSettings
    \/ SendAdvancedModeSettings
    \/ SendSpecifyMarginAmount
    \/ SendSelectCompressionMode
    \/ ForCopy
    \/ SendRasterData
    \/ SendPrintCommand
    \/ WhileNotCompleted
    \/ CopyCompleted
    \/ Del

Spec == Init /\ [][Next]_vars

\* the session is one thread: it takes its next step whenever it has one
FairSpec == Spec /\ WF_vars(Next)

---------------------------------------------------------------------------
(* The parser on its own: _receive_status_information_response applied to  *)
(* one response drawn from the responses below.                            *)

\* the fields of a frame that every StatusMessage class accepts
ValidFields ==
    (10 :> 24) @@ (11 :> \h01) @@ (15 :> \h40) @@ (19 :> \h01)
        @@ (22 :> \h01) @@ (24 :> \h01) @@ (25 :> \h08)

\* ErrorOccurred frames: every value in bytes for the two error bytes
ErrorFrames(bytes) ==
    { StatusFrame((18 :> \h02) @@ (8 :> e1) @@ (9 :> e2)) :
        e1 \in bytes, e2 \in bytes }

\* every value in bytes for the status type byte, over zero fields, over
\* fields every class accepts, and with both error bytes set
StatusTypeFrames(bytes) ==
    { StatusFrame((18 :> b) @@ fields) :
        b \in bytes,
        fields \in { << >>, ValidFields, (8 :> \h04) @@ (9 :> \h10) } }

\* responses of every length up to longest: zeros, the bytes of a
\* PrintingCompleted frame, and all \hFF
LengthFrames(longest) ==
    { [ j \in 1..n |-> IF fill = 1 THEN (IF j = 19 THEN \h01 ELSE 0)
                       ELSE fill ] :
        n \in 0..longest, fill \in { 0, 1, \hFF } }

\* PhaseChange frames: every phase type in bytes with the phase number
\* bytes near the listed numbers, and both listed phase types with every
\* value in bytes for one phase number byte
PhaseFrames(bytes) ==
    LET near == { \h00, \h01, \h14, \hFF }
    IN  { StatusFrame((18 :> \h06) @@ (19 :> t) @@ (20 :> hi) @@ (21 :> lo)) :
            t \in bytes, hi \in near, lo \in near }
        \cup { StatusFrame((18 :> \h06) @@ (19 :> t) @@ (20 :> hi)
                               @@ (21 :> lo)) :
                 t \in PhaseType, hi \in bytes, lo \in { \h00, \h01, \h14 } }
        \cup { StatusFrame((18 :> \h06) @@ (19 :> t) @@ (20 :> hi)
                               @@ (21 :> lo)) :
                 t \in PhaseType, hi \in { \h00, \h14 }, lo \in bytes }

\* PrintingCompleted frames: every value in bytes for the mode byte
ModeFrames(bytes) ==
    { StatusFrame((18 :> \h01) @@ (15 :> m)) : m \in bytes }

\* f is one of the responses handed to the parser
ParseInputs(f, bytes, longest) ==
    \/ f \in ModeFrames(bytes)
    \/ f \in ErrorFrames(bytes)
    \/ f \in StatusTypeFrames(bytes)
    \/ f \in LengthFrames(longest)
    \/ f \in PhaseFrames(bytes)

ParseInit ==
    /\ args_tape_mm = 24
    /\ device = "BluetoothConnector"
    /\ connection = "open"
    /\ deleted = FALSE
    /\ pc = "parse"
    /\ ParseInputs(frame, Byte, MaxFrameLen)
    /\ image = [ height |-> 128, columns |-> << >> ]
    /\ num_copies = 0
    /\ data = << >>
    /\ i = 0
    /\ line = 0
    /\ status = NoStatus
    /\ error = NoStatus
    /\ sent = << >>
    /\ nrecv = 0
    /\ first = NoStatus
    /\ completed = FALSE

\* status = self._receive_status_information_response(), on frame
ParseStep ==
    /\ pc = "parse"
    /\ pc' = "parsed"
    /\ LET r == ReceiveStatusInformationResponse(frame)
       IN  IF r.outcome = "raise"
           THEN error' = r /\ status' = status
           ELSE status' = r /\ error' = error
    /\ UNCHANGED <<caller, image, num_copies, data, i, line, sent, frame, nrecv,
                   first, completed>>

ParseNext == ParseStep

ParseSpec == ParseInit /\ [][ParseNext]_vars

---------------------------------------------------------------------------
(* The rasterizer on its own: _send_raster_data applied to one buffer      *)
(* drawn from the buffers below.                                           *)

\* every chunk of the two bytes a and b: the bits of n choose the byte
TwoByteChunks(a, b) ==
    { [ j \in 1..CHUNK_SIZE |->
          IF (n \div 2 ^ (j - 1)) % 2 = 1 THEN a ELSE b ] :
        n \in 0..(2 ^ CHUNK_SIZE - 1) }

\* chunks of at most three runs of the given values
RunChunks(values) ==
    { [ j \in 1..CHUNK_SIZE |-> IF j <= k THEN a ELSE IF j <= m THEN b ELSE c ] :
        a \in values, b \in values, c \in values,
        k \in 0..CHUNK_SIZE, m \in 0..CHUNK_SIZE }

\* chunks of zeros but for one byte, of every value in bytes
OneByteChunks(bytes) ==
    { [ j \in 1..CHUNK_SIZE |-> IF j = p THEN v ELSE 0 ] :
        p \in 1..CHUNK_SIZE, v \in bytes }

\* chunks without two equal neighbours, and such chunks behind a run
LiteralChunks(bytes) ==
    { [ j \in 1..CHUNK_SIZE |-> IF j <= k THEN start
                                ELSE (start + j * step) % 256 ] :
        start \in { \h00, \h7F, \hF0 }, step \in { 1, 2, 17, \h80, \hFF },
        k \in 0..CHUNK_SIZE }

RECURSIVE StepSum(_, _)
\* the sum of the steps chosen by the low j bits of n: 1 for a 0, 2 for a 1
StepSum(n, j) ==
    IF j = 0 THEN 0 ELSE 1 + (n % 2) + StepSum(n \div 2, j - 1)

\* every chunk of three bytes that starts with the first of them and in
\* which no byte equals its neighbour: the bits of n choose each next byte
NoRepeatChunks(a, b, c) ==
    { [ j \in 1..CHUNK_SIZE |->
          LET v == StepSum(n, j - 1) % 3
          IN  IF v = 0 THEN a ELSE IF v = 1 THEN b ELSE c ] :
        n \in 0..(2 ^ (CHUNK_SIZE - 1) - 1) }

\* buffers of every length up to longest: zeros, one value, a count
LengthBuffers(longest) ==
    { [ j \in 1..n |-> IF fill = 2 THEN j % 256 ELSE fill ] :
        n \in 0..longest, fill \in { 0, 1, 2 } }

\* d is one of the buffers handed to the rasterizer
RasterInputs(d, bytes, longest) ==
    \/ d \in TwoByteChunks(\hAA, \h00)
    \/ d \in RunChunks({ \h00, \h01, \hFF })
    \/ d \in OneByteChunks(bytes)
    \/ d \in LiteralChunks(bytes)
    \/ d \in NoRepeatChunks(\h00, \h55, \hFF)
    \/ d \in LengthBuffers(longest)

RasterInit ==
    /\ args_tape_mm = 24
    /\ device = "BluetoothConnector"
    /\ connection = "open"
    /\ deleted = FALSE
    /\ pc = "rasterize"
    /\ RasterInputs(data, Byte, MaxDataLen)
    /\ image = [ height |-> 128, columns |-> << >> ]
    /\ num_copies = 0
    /\ i = 0
    /\ line = 0
    /\ status = NoStatus
    /\ error = NoStatus
    /\ sent = << >>
    /\ frame = << >>
    /\ nrecv = 0
    /\ first = NoStatus
    /\ completed = FALSE

\* _send_raster_data(data): every line rasterize yields is sent
RasterStep ==
    /\ pc = "rasterize"
    /\ pc' = "rasterized"
    /\ sent' = sent \o rasterize(data)
    /\ UNCHANGED <<caller, image, num_copies, data, i, line, status, error,
                   frame, nrecv, first, completed>>

RasterNext == RasterStep

RasterSpec == RasterInit /\ [][RasterNext]_vars

---------------------------------------------------------------------------
(* Vocabulary of the properties below. *)

\* what the parser gave for the response parsed: the exception or the message
Parsed == IF error.outcome = "raise" THEN error ELSE status

\* the classes _receive_status_information_response raises for an
\* ErrorOccurred frame
ErrorOccurredClasses ==
    { "NoMediaError", "CutterJamError", "WeakBatteriesError",
      "HighVoltageAdapterError", "WrongMediaError", "CoverOpenError",
      "OverheatingError", "UnknownStatusMessageError" }

KnownStatusTypes == { \h00, \h01, \h02, \h04, \h05, \h06 }

\* f is TurnedOff, is ErrorOccurred, or does not parse: wrong length or
\* unknown status type
FatalFrame(f) ==
    \/ Len(f) # 32
    \/ At(f, 18) \in { \h02, \h04 }
    \/ At(f, 18) \notin KnownStatusTypes

\* e is the typed error that goes with fatal frame f
ErrorOfFrame(f, e) ==
    /\ e.outcome = "raise"
    /\ IF Len(f) # 32
       THEN e.class = "InvalidStatusResponseException" /\ e.code = Len(f)
       ELSE IF At(f, 18) = \h04 THEN e.class = "DeviceTurnedOffException"
       ELSE IF At(f, 18) = \h02 THEN e.class \in ErrorOccurredClasses
       ELSE e.class = "InvalidStatusCodeException" /\ e.code = At(f, 18)

\* the sends of the handshake: invalidate, initialize, status request
HandshakeSends == << Zeros(100), << \h1B, \h40 >>, << \h1B, \h69, \h53 >> >>

\* the send() calls before the first raster line: 3 of the handshake and 10
\* of the configuration
PrefixSends == Len(HandshakeSends) + 10

\* the two print commands
PrintCommands == { << \h0C >>, << \h1A >> }

\* the number of send() calls of one copy: its raster lines and its print
\* command
CopySends == Len(rasterize(data)) + 1

---------------------------------------------------------------------------
(* C1.  For every copy, the session neither sends a raster line of the     *)
(* next copy nor finishes before a PrintingCompleted frame has been        *)
(* received after that copy's print command: whenever a raster line of a   *)
(* later copy has been sent, or the session is done after printing, a      *)
(* PrintingCompleted frame was received since the last print command.      *)
C1_CompletionSeenBeforeAdvancing ==
    (i >= 1 /\ (pc = "done" \/ (pc = "send_raster_data" /\ line >= 1)))
        => completed

(* C2.  Past the configuration, the sends are, copy after copy, the raster *)
(* lines of the copy in order and then its print command, \h0C for every   *)
(* copy but the last and \h1A for the last; a session that is done has     *)
(* sent exactly that for num_copies copies, hence num_copies print         *)
(* commands.                                                               *)
C2_PrintCommandPerCopy ==
    LET lines == rasterize(data)
        each == Len(lines) + 1
        copy(j) == (j - PrefixSends - 1) \div each
        slot(j) == (j - PrefixSends - 1) % each
    IN  /\ \A j \in (PrefixSends + 1)..Len(sent) :
              sent[j] = IF slot(j) < Len(lines) THEN lines[slot(j) + 1]
                        ELSE IF copy(j) = num_copies - 1 THEN << \h1A >>
                        ELSE << \h0C >>
        /\ (pc = "done" /\ num_copies >= 1) =>
              /\ Len(sent) = PrefixSends + num_copies * each
              /\ Cardinality({ j \in 1..Len(sent) : sent[j] \in PrintCommands })
                     = num_copies

C2_Witness ==
    /\ pc = "done"
    /\ num_copies = 2
    /\ Len(rasterize(data)) = 2
    /\ sent[PrefixSends + 3] = << \h0C >>
    /\ sent[PrefixSends + 6] = << \h1A >>

(* C3.  print_image always terminates: the completion wait gives up after  *)
(* a bounded number of responses, so every session ends, done or with an   *)
(* exception.                                                              *)
C3_SessionTerminates == <>(pc \in { "done", "raised" })

(* C4.  When the first status response is TurnedOff, ErrorOccurred or does *)
(* not parse, print_image ends with the error that goes with it, and the   *)
(* three sends of the handshake are all that is ever sent.                 *)
C4_FatalInitialStatus ==
    /\ (nrecv = 1 /\ FatalFrame(frame)) => ErrorOfFrame(frame, first)
    /\ first.outcome = "raise" =>
          /\ pc = "raised"
          /\ error = first
          /\ nrecv = 1
          /\ sent = HandshakeSends

C4_Witness ==
    /\ pc = "raised"
    /\ frame = TurnedOffFrame
    /\ error.class = "DeviceTurnedOffException"
    /\ sent = HandshakeSends

(* C5.  When the first status response yields a message, whatever its      *)
(* class, the session goes on and sends the raster mode switch as its next *)
(* send.                                                                   *)
C5_AnyInitialMessageConfigures ==
    (nrecv = 1 /\ first.outcome = "return")
        ~> (Len(sent) > 3 /\ sent[4] = << \h1B, \h69, \h61, \h01 >>)

C5_Witness ==
    /\ first.outcome = "return"
    /\ first.class = "PhaseChange"
    /\ Len(sent) > 3
    /\ sent[4] = << \h1B, \h69, \h61, \h01 >>

(* C6.  A fatal response received while the session waits for the          *)
(* completion of a copy ends print_image with the error that goes with     *)
(* it, nothing being sent in that step, and once print_image has raised    *)
(* nothing is sent or received any more.                                   *)
C6_FatalStatusEndsSession ==
    [][ /\ pc = "raised" => UNCHANGED session
        /\ (pc = "while_not_completed" /\ FatalFrame(frame')) =>
              /\ pc' = "raised"
              /\ ErrorOfFrame(frame', error')
              /\ sent' = sent
              /\ i' = i ]_vars

C6_Witness ==
    /\ pc = "raised"
    /\ num_copies = 2
    /\ i = 0
    /\ frame = NoMediaFrame
    /\ error.class = "NoMediaError"
    /\ Len(sent) = PrefixSends + CopySends
    /\ sent[Len(sent)] = << \h0C >>

(* C7.  A response whose length is not 32 fails with                       *)
(* InvalidStatusResponseException carrying that length, whatever its       *)
(* bytes, and no message is returned; a response of 32 bytes never fails   *)
(* with that exception.                                                    *)
C7_LengthGuard ==
    pc = "parsed" =>
        IF Len(frame) # 32
        THEN /\ error = Raise("InvalidStatusResponseException", Len(frame))
             /\ status = NoStatus
        ELSE Parsed.class # "InvalidStatusResponseException"

C7_Witness ==
    /\ pc = "parsed"
    /\ Len(frame) = 33
    /\ At(frame, 18) = \h01
    /\ error.class = "InvalidStatusResponseException"
    /\ error.code = 33

(* C8.  For a response of 32 bytes the status type byte alone selects what *)
(* is built: \h00 a ReplyToStatusRequest, \h01 a PrintingCompleted, \h05 a *)
(* Notification, \h06 a PhaseChange (or the ValueError of that class's     *)
(* constructor), \h02 one of the ErrorOccurred errors, \h04                *)
(* DeviceTurnedOffException; every other value raises                      *)
(* InvalidStatusCodeException carrying the value.                          *)
C8_StatusTypeSelectsVariant ==
    (pc = "parsed" /\ Len(frame) = 32) =>
        LET b == At(frame, 18)
            built(class) ==
                \/ Parsed.outcome = "return" /\ Parsed.class = class
                \/ Parsed.outcome = "raise" /\ Parsed.class = "ValueError"
        IN  CASE b = \h00 -> built("ReplyToStatusRequest")
              [] b = \h01 -> Parsed = status /\ built("PrintingCompleted")
              [] b = \h02 -> /\ Parsed.outcome = "raise"
                             /\ Parsed.class \in ErrorOccurredClasses
              [] b = \h04 -> Parsed = Raise("DeviceTurnedOffException", -1)
              [] b = \h05 -> built("Notification")
              [] b = \h06 -> built("PhaseChange")
              [] OTHER -> Parsed = Raise("InvalidStatusCodeException", b)

C8_Witness ==
    /\ pc = "parsed"
    /\ Len(frame) = 32
    /\ At(frame, 18) = \h03
    /\ At(frame, 8) = \h04
    /\ error = Raise("InvalidStatusCodeException", \h03)

\* the error class by flag bits, first set bit wins: error_information1
\* \h01, \h04, \h08, \h40, then error_information2 \h01, \h10, \h20
FlagPriorityClass(e1, e2) ==
    IF HasFlag(e1, \h01) THEN "NoMediaError"
    ELSE IF HasFlag(e1, \h04) THEN "CutterJamError"
    ELSE IF HasFlag(e1, \h08) THEN "WeakBatteriesError"
    ELSE IF HasFlag(e1, \h40) THEN "HighVoltageAdapterError"
    ELSE IF HasFlag(e2, \h01) THEN "WrongMediaError"
    ELSE IF HasFlag(e2, \h10) THEN "CoverOpenError"
    ELSE IF HasFlag(e2, \h20) THEN "OverheatingError"
    ELSE "UnknownStatusMessageError"

(* C9.  For an ErrorOccurred frame the error raised is the one of the      *)
(* first flag bit set, in the order error_information1 \h01, \h04, \h08,   *)
(* \h40, error_information2 \h01, \h10, \h20, for every value of the two   *)
(* bytes.                                                                  *)
C9_FirstSetFlagWins ==
    (pc = "parsed" /\ Len(frame) = 32 /\ At(frame, 18) = \h02) =>
        /\ error.outcome = "raise"
        /\ error.class = FlagPriorityClass(At(frame, 8), At(frame, 9))

(* C10.  For an ErrorOccurred frame whose error_information1 carries one   *)
(* of the flags \h01, \h04, \h08, \h40, the error raised does not depend   *)
(* on error_information2: the same frame with any other value of that      *)
(* byte raises the same error.                                             *)
C10_Information1Decides ==
    (/\ pc = "parsed"
     /\ Len(frame) = 32
     /\ At(frame, 18) = \h02
     /\ \E flag \in { \h01, \h04, \h08, \h40 } : HasFlag(At(frame, 8), flag))
        => \A e2 \in { \h00, \h01, \h10, \h20, \hFF } :
              ReceiveStatusInformationResponse([frame EXCEPT ![10] = e2])
                  = error

\* the four pairs of (phase_type, phase_number) and the phase each stands for
KnownPhases ==
    (<< \h00, \h0000 >> :> "EDITING_STATE") @@ (<< \h00, \h0001 >> :> "FEED")
        @@ (<< \h01, \h0000 >> :> "PRINTING")
        @@ (<< \h01, \h0014 >> :> "COVER_OPEN_WHILE_RECEIVING")

(* C11.  A PhaseChange frame yields a PhaseChange message for exactly four  *)
(* pairs of phase type (byte 19) and phase number (bytes 20..21, big        *)
(* endian): (0, 0) editing, (0, 1) feed, (1, 0) printing, (1, \h14) cover   *)
(* open while receiving; for every other pair the parser raises and no      *)
(* message is returned.                                                     *)
C11_PhaseChangeDecodesFourPairs ==
    (pc = "parsed" /\ Len(frame) = 32 /\ At(frame, 18) = \h06) =>
        LET pair == << At(frame, 19), At(frame, 20) * 256 + At(frame, 21) >>
        IN  IF pair \in DOMAIN KnownPhases
            THEN /\ error = NoStatus
                 /\ status = Return("PhaseChange", FALSE, FALSE,
                                    KnownPhases[pair])
            ELSE /\ error.outcome = "raise"
                 /\ status = NoStatus

C11_Witness ==
    /\ pc = "parsed"
    /\ Len(frame) = 32
    /\ SubSeq(frame, 19, 22) = << \h06, \h01, \h00, \h14 >>
    /\ status.class = "PhaseChange"
    /\ status.name = "COVER_OPEN_WHILE_RECEIVING"

\* the k-th chunk of the buffer rasterized, k from 1
ChunkOf(k) == Chunk(data, (k - 1) * CHUNK_SIZE)

\* the length field of a raster line: bytes 1..2 of the line, little endian
LengthField(l) == l[2] + 256 * l[3]

(* C12.  rasterize sends a chunk of 16 zero bytes as the single byte \h5A,  *)
(* and a chunk of 16 bytes one of which is not zero never as that byte.     *)
C12_ZeroChunkIsZeroCommand ==
    pc = "rasterized" =>
        \A k \in 1..Len(sent) :
            Len(ChunkOf(k)) = CHUNK_SIZE =>
                ((\A j \in 1..CHUNK_SIZE : ChunkOf(k)[j] = 0)
                    <=> sent[k] = << \h5A >>)

C12_Witness ==
    /\ pc = "rasterized"
    /\ Len(data) = 32
    /\ sent = << << \h5A >>, << \h5A >> >>

(* C13.  The line sent for a chunk of 16 bytes that is not all zero is      *)
(* \h47, a length field of two bytes, little endian, and the packed chunk;  *)
(* the length field is the number of bytes that follow it.                  *)
C13_RasterLineLayout ==
    pc = "rasterized" =>
        \A k \in 1..Len(sent) :
            (Len(ChunkOf(k)) = CHUNK_SIZE /\ ChunkOf(k) # Zeros(CHUNK_SIZE)) =>
                /\ Len(sent[k]) >= 3
                /\ sent[k][1] = \h47
                /\ LengthField(sent[k]) = Len(sent[k]) - 3
                /\ SubSeq(sent[k], 4, Len(sent[k])) = PackBitsEncode(ChunkOf(k))

C13_Witness ==
    /\ pc = "rasterized"
    /\ data = [ j \in 1..16 |-> IF j = 1 THEN \h01 ELSE 0 ]
    /\ sent = << << \h47, \h04, \h00, \h00, \h01, \hF2, \h00 >> >>

RECURSIVE PackBitsDecode(_, _)
\* PackBits decoding of d from position pos (0-based): a control byte n
\* below 128 copies the n + 1 bytes after it, above 128 repeats the byte
\* after it 257 - n times, 128 is skipped
PackBitsDecode(d, pos) ==
    IF pos >= Len(d) THEN << >>
    ELSE LET n == At(d, pos)
         IN  IF n < 128
             THEN SubSeq(d, pos + 2, IF pos + 1 + n + 1 < Len(d)
                                     THEN pos + 1 + n + 1 ELSE Len(d))
                      \o PackBitsDecode(d, pos + 1 + n + 1)
             ELSE IF n = 128 THEN PackBitsDecode(d, pos + 1)
             ELSE IF pos + 1 >= Len(d) THEN << >>
             ELSE [ j \in 1..(257 - n) |-> At(d, pos + 1) ]
                      \o PackBitsDecode(d, pos + 2)

\* what a raster line decodes to
DecodeLine(l) ==
    IF l = << \h5A >> THEN Zeros(CHUNK_SIZE)
    ELSE IF Len(l) >= 3 /\ l[1] = \h47
    THEN PackBitsDecode(SubSeq(l, 4, 3 + LengthField(l)), 0)
    ELSE << >>

(* C14.  Decoding the line sent for a chunk of 16 bytes gives the chunk     *)
(* back: the PackBits decoding of the payload of a \h47 line, 16 zero       *)
(* bytes for a \h5A line.                                                   *)
C14_RoundTrip ==
    pc = "rasterized" =>
        \A k \in 1..Len(sent) :
            Len(ChunkOf(k)) = CHUNK_SIZE => DecodeLine(sent[k]) = ChunkOf(k)

C14_Witness ==
    /\ pc = "rasterized"
    /\ data = [ j \in 1..16 |-> IF j <= 3 THEN \hFF
                                ELSE IF j <= 5 THEN \h01 ELSE \h00 ]
    /\ sent = << << \h47, \h06, \h00, \hFE, \hFF, \hFF, \h01, \hF6, \h00 >> >>
    /\ DecodeLine(sent[1]) = data

RECURSIVE Flat(_)
\* the bytes of a sequence of sends, in order
Flat(sends) ==
    IF Len(sends) = 0 THEN << >> ELSE Head(sends) \o Flat(Tail(sends))

\* the bytes up to the first raster line for encoded data of length len:
\* the handshake, then the seven configuration commands; -1 stands for the
\* tape width byte of the print information command, any byte
PrefixBytes(len) ==
    Flat(HandshakeSends)
        \o << \h1B, \h69, \h61, \h01 >>
        \o << \h1B, \h69, \h21, \h00 >>
        \o << \h1B, \h69, \h7A, \h84, \h00, -1, \h00 >>
        \o ToBytes4Little(len \div 16) \o << \h00, \h00 >>
        \o << \h1B, \h69, \h4D, \h40 >>
        \o << \h1B, \h69, \h4B, \h08 >>
        \o << \h1B, \h69, \h64, \h00, \h00 >>
        \o << \h4D, \h02 >>

\* bytes is the beginning of pattern, -1 in pattern standing for any byte
BeginsAs(bytes, pattern) ==
    /\ Len(bytes) <= Len(pattern)
    /\ \A j \in 1..Len(bytes) : pattern[j] \in { -1, bytes[j] }

(* C15.  Up to the first raster line the transport sees, in this order:     *)
(* 100 zero bytes, 1B 40, 1B 69 53, one receive, then 1B 69 61 01,          *)
(* 1B 69 21 00, the print information command, 1B 69 4D 40, 1B 69 4B 08,    *)
(* 1B 69 64 00 00 and 4D 02.  Nothing is received before the status         *)
(* request is sent, no byte of the configuration is sent before the         *)
(* receive, and no second receive happens before the configuration is       *)
(* complete.                                                                *)
C15_PrefixOrder ==
    LET n == IF Len(sent) < PrefixSends THEN Len(sent) ELSE PrefixSends
        bytes == Flat(SubSeq(sent, 1, n))
    IN  /\ BeginsAs(bytes, PrefixBytes(Len(data)))
        /\ n = PrefixSends => Len(bytes) = Len(PrefixBytes(Len(data)))
        /\ Len(sent) < Len(HandshakeSends) => nrecv = 0
        /\ Len(sent) = Len(HandshakeSends) => nrecv <= 1
        /\ (Len(sent) > Len(HandshakeSends) /\ Len(sent) <= PrefixSends)
              => nrecv = 1

C15_Witness ==
    /\ pc = "send_raster_data"
    /\ i = 0
    /\ line = 0
    /\ nrecv = 1
    /\ frame = ReplyFrame
    /\ Len(data) = 32
    /\ Flat(sent) = Zeros(100) \o
          << \h1B, \h40, \h1B, \h69, \h53,
             \h1B, \h69, \h61, \h01, \h1B, \h69, \h21, \h00,
             \h1B, \h69, \h7A, \h84, \h00, \h18, \h00,
             \h02, \h00, \h00, \h00, \h00, \h00,
             \h1B, \h69, \h4D, \h40, \h1B, \h69, \h4B, \h08,
             \h1B, \h69, \h64, \h00, \h00, \h4D, \h02 >>

(* C16.  The print information command of a job is the 13 bytes             *)
(* 1B 69 7A 84 00 W 00 n0 n1 n2 n3 00 00, W the tape width of the job in    *)
(* mm and n0..n3 the length of the encoded data divided by 16, little       *)
(* endian.                                                                  *)
C16_PrintInformationNamesTape ==
    Len(sent) >= 8 =>
        Flat(SubSeq(sent, 6, 8))
            = (<< \h1B, \h69, \h7A, \h84, \h00, args_tape_mm, \h00 >>
                   \o ToBytes4Little(Len(data) \div 16)) \o << \h00, \h00 >>

(* C17.  encode_png raises InvalidImageHeightException, carrying the height *)
(* required by the tape and the height of the image, whenever the two       *)
(* differ, print_image ending with it; it never raises it when they are     *)
(* equal.                                                                   *)
C17_InvalidImageHeight ==
    pc # "encode_png" =>
        IF image.height # TAPE_MM_TO_PX[args_tape_mm]
        THEN /\ pc = "raised"
             /\ error.outcome = "raise"
             /\ error.class = "InvalidImageHeightException"
             /\ error.required_height = TAPE_MM_TO_PX[args_tape_mm]
             /\ error.actual_height = image.height
        ELSE error.class # "InvalidImageHeightException"

C17_Witness ==
    /\ pc = "raised"
    /\ args_tape_mm = 24
    /\ image.height = 100
    /\ error.class = "InvalidImageHeightException"
    /\ error.required_height = 128
    /\ error.actual_height = 100

(* C18.  Once the print session is over and the printer object is gone,     *)
(* whether print_image returned or raised, the connection is closed, for    *)
(* the Bluetooth and for the USB connector.                                 *)
C18_ConnectionReleased == deleted => connection = "closed"

\* the errors of exceptions.py that a status response can raise
TypedErrors ==
    { "InvalidStatusResponseException", "InvalidStatusCodeException",
      "DeviceTurnedOffException" } \cup ErrorOccurredClasses

(* C19.  When print_image ends with an exception because of a status        *)
(* response, the exception is one of the typed errors: a reply with an      *)
(* unlisted media type, tape colour or text colour, or a notification with  *)
(* an unlisted number, does not end it with another exception.              *)
C19_StatusErrorsAreTyped ==
    (pc = "raised" /\ nrecv >= 1) => error.class \in TypedErrors

(* C20.  An ErrorOccurred frame always raises one of the errors of its      *)
(* kind and returns no message; when none of the seven flag bits is set in  *)
(* the two error bytes the error is UnknownStatusMessageError.              *)
C20_ErrorOccurredAlwaysRaises ==
    (pc = "parsed" /\ Len(frame) = 32 /\ At(frame, 18) = \h02) =>
        /\ status = NoStatus
        /\ error.outcome = "raise"
        /\ error.class \in ErrorOccurredClasses
        /\ FlagPriorityClass(At(frame, 8), At(frame, 9))
               = "UnknownStatusMessageError"
              => error = Raise("UnknownStatusMessageError", -1)

C20_Witness ==
    /\ pc = "parsed"
    /\ Len(frame) = 32
    /\ At(frame, 18) = \h02
    /\ At(frame, 8) = \h02
    /\ At(frame, 9) = \h80
    /\ error = Raise("UnknownStatusMessageError", -1)

(* C21.  A PrintingCompleted frame yields a PrintingCompleted message for   *)
(* every value of the mode byte (offset 15) and never raises: auto_cut is   *)
(* true exactly when bit \h40 of the byte is set, mirror_printing exactly   *)
(* when bit \h80 is set, and whatever the byte the message is one on which  *)
(* the completion wait ends (isinstance(status, PrintingCompleted)).        *)
C21_ModeIsInformational ==
    (pc = "parsed" /\ Len(frame) = 32 /\ At(frame, 18) = \h01) =>
        LET mode == At(frame, 15)
        IN  /\ error = NoStatus
            /\ status.outcome = "return"
            /\ status.class = "PrintingCompleted"
            /\ status.auto_cut <=> (mode % 128 >= 64)
            /\ status.mirror_printing <=> (mode >= 128)
            /\ IsPrintingCompleted(status)

C21_Witness ==
    /\ pc = "parsed"
    /\ Len(frame) = 32
    /\ At(frame, 18) = \h01
    /\ At(frame, 15) = \hBF
    /\ status.class = "PrintingCompleted"
    /\ ~status.auto_cut
    /\ status.mirror_printing

\* no byte of chunk d equals the byte after it
NoRepeat(d) == \A j \in 1..(Len(d) - 1) : d[j] # d[j + 1]

(* C22.  For a chunk of 16 bytes in which no two adjacent bytes are equal   *)
(* the packed chunk is 17 bytes and never more: the control byte of a       *)
(* literal run of 16 and the 16 bytes of the chunk.                         *)
C22_NoRepeatWorstCase ==
    pc = "rasterized" =>
        \A k \in 1..Len(sent) :
            (Len(ChunkOf(k)) = CHUNK_SIZE /\ NoRepeat(ChunkOf(k))) =>
                /\ Len(sent[k]) - 3 <= 17
                /\ SubSeq(sent[k], 4, Len(sent[k])) = << 15 >> \o ChunkOf(k)

C22_Witness ==
    /\ pc = "rasterized"
    /\ data = [ j \in 1..16 |-> IF j % 2 = 1 THEN \h00 ELSE \h55 ]
    /\ Len(sent) = 1
    /\ Len(sent[1]) = 20
    /\ SubSeq(sent[1], 1, 6) = << \h47, \h11, \h00, \h0F, \h00, \h55 >>

(* C23.  For a chunk of 16 bytes that is not all zero, whatever its runs,   *)
(* the payload the raster line carries is at most 32 bytes and so is the    *)
(* value of the length field.                                               *)
C23_PayloadAtMost32 ==
    pc = "rasterized" =>
        \A k \in 1..Len(sent) :
            (Len(ChunkOf(k)) = CHUNK_SIZE /\ ChunkOf(k) # Zeros(CHUNK_SIZE)) =>
                /\ Len(sent[k]) - 3 <= 32
                /\ LengthField(sent[k]) <= 32

C23_Witness ==
    /\ pc = "rasterized"
    /\ data = [ j \in 1..16 |-> IF j % 3 = 0 THEN \hAA ELSE \h00 ]
    /\ Len(sent) = 1
    /\ LengthField(sent[1]) = 21
    /\ Len(sent[1]) = 24

\* the length of the run of equal bytes of d that starts at position pos
RECURSIVE RunLength(_, _)
RunLength(d, pos) ==
    IF pos < Len(d) /\ d[pos + 1] = d[pos] THEN 1 + RunLength(d, pos + 1)
    ELSE 1

\* a literal run of the bytes lit, nothing for no bytes
LiteralRun(lit) == IF Len(lit) = 0 THEN << >> ELSE << Len(lit) - 1 >> \o lit

\* d from position pos on, run by run: a maximal run of two bytes or more
\* is a repeat run, control byte 257 - count and the byte, the single bytes
\* between two such runs (lit, so far) are one literal run
RECURSIVE RunByRun(_, _, _)
RunByRun(d, pos, lit) ==
    IF pos > Len(d) THEN LiteralRun(lit)
    ELSE LET count == RunLength(d, pos)
         IN  IF count >= 2
             THEN (LiteralRun(lit) \o << 257 - count, d[pos] >>)
                      \o RunByRun(d, pos + count, << >>)
             ELSE RunByRun(d, pos + 1, Append(lit, d[pos]))

(* C24.  The payload of a chunk is the chunk run by run: every maximal run  *)
(* of two or more equal bytes, a run of exactly two included, is a repeat   *)
(* run (control byte 257 - count, then the byte), and the bytes between two *)
(* such runs are one literal run that ends before the repeat run starts     *)
(* and starts after the one before it.                                      *)
C24_RunsAreRepeatRuns ==
    pc = "rasterized" =>
        \A k \in 1..Len(sent) :
            sent[k] # << \h5A >> =>
                SubSeq(sent[k], 4, Len(sent[k])) = RunByRun(ChunkOf(k), 1, << >>)

C24_Witness ==
    /\ pc = "rasterized"
    /\ data = [ j \in 1..16 |-> IF j = 1 THEN \h01
                                ELSE IF j <= 3 THEN \hFF ELSE \h00 ]
    /\ sent = << << \h47, \h06, \h00, \h00, \h01, \hFF, \hFF, \hF4, \h00 >> >>

(* C30.  For a buffer of n bytes rasterize yields ceil(n / 16) lines, none  *)
(* for an empty buffer; line k encodes bytes 16k .. min(16k + 16, n) - 1;   *)
(* a line is \h5A only for a chunk of exactly 16 zero bytes, and a last     *)
(* chunk of fewer than 16 bytes is a \h47 line even when all its bytes are  *)
(* zero.                                                                    *)
C30_LinesOfBuffer ==
    pc = "rasterized" =>
        LET n == Len(data)
            last(k) == IF CHUNK_SIZE * k < n THEN CHUNK_SIZE * k ELSE n
            bytes(k) == SubSeq(data, CHUNK_SIZE * (k - 1) + 1, last(k))
        IN  /\ Len(sent) = (n + CHUNK_SIZE - 1) \div CHUNK_SIZE
            /\ n = 0 => sent = << >>
            /\ \A k \in 1..Len(sent) :
                  /\ sent[k] = << \h5A >> <=> bytes(k) = Zeros(CHUNK_SIZE)
                  /\ sent[k] # << \h5A >> =>
                        /\ sent[k][1] = \h47
                        /\ PackBitsDecode(
                               SubSeq(sent[k], 4, Len(sent[k])), 0) = bytes(k)

C30_Witness ==
    /\ pc = "rasterized"
    /\ data = Zeros(20)
    /\ sent = << << \h5A >>, << \h47, \h02, \h00, \hFD, \h00 >> >>

\* bit p of scan line c of a buffer of 16-byte scan lines, bit 0 being the
\* most significant bit of the line's first byte
BitOf(d, c, p) ==
    (d[CHUNK_SIZE * c + (p \div 8) + 1] \div (2 ^ (7 - (p % 8)))) % 2

(* C25.  For an image whose height is the row height of the job's tape,     *)
(* encode_png returns one 16-byte scan line for every column of the image,  *)
(* in column order; in the scan line of column c the bit at position        *)
(* margin + r, counted from the most significant bit of the first byte, is  *)
(* set exactly when the alpha value at row r, column c is greater than 0,   *)
(* and every bit of the two margins is zero.                                *)
C25_ScanLineBits ==
    (pc # "encode_png" /\ image.height = TAPE_MM_TO_PX[args_tape_mm]) =>
        LET m == TAPE_MM_TO_MARGIN_PX[args_tape_mm]
        IN  /\ pc # "raised" \/ Len(sent) > 0
            /\ Len(data) = CHUNK_SIZE * Len(image.columns)
            /\ \A c \in 0..(Len(image.columns) - 1) :
                 \A p \in 0..(8 * CHUNK_SIZE - 1) :
                    BitOf(data, c, p) = 1
                        <=> /\ p >= m
                            /\ p < m + image.height
                            /\ AlphaAt(image, p - m, c) > 0

C25_Witness ==
    /\ pc = "send_invalidate"
    /\ args_tape_mm = 12
    /\ image.height = 70
    /\ Len(data) = 16
    /\ BitOf(data, 0, 29) = 1
    /\ BitOf(data, 0, 30) = 0
    /\ BitOf(data, 0, 98) = 1
    /\ BitOf(data, 0, 99) = 0
    /\ BitOf(data, 0, 28) = 0

(* C26.  For the tape of every job, one of 24, 18, 12, 9, 6 and 3.5 mm (the *)
(* table's key 4), row height + 2 x margin = 128 pixels; encode_png never   *)
(* reads past the end of a line (no IndexError), every scan line it         *)
(* produces is 16 bytes, and the length of the encoded buffer is a multiple *)
(* of 16.                                                                   *)
C26_LinesAre128Pixels ==
    /\ TAPE_MM_TO_PX[args_tape_mm] + 2 * TAPE_MM_TO_MARGIN_PX[args_tape_mm]
           = 8 * CHUNK_SIZE
    /\ error.class # "IndexError"
    /\ Len(data) % CHUNK_SIZE = 0
    /\ (pc # "encode_png" /\ image.height = TAPE_MM_TO_PX[args_tape_mm]) =>
           /\ LineLen(image, args_tape_mm) = 8 * CHUNK_SIZE
           /\ \A c \in 0..(Len(image.columns) - 1) :
                  Len(PackLine(image, args_tape_mm, c)) = CHUNK_SIZE
           /\ Len(data) = CHUNK_SIZE * Len(image.columns)

C26_Witness ==
    /\ pc = "send_initialize"
    /\ args_tape_mm = 4
    /\ image.height = 24
    /\ Len(data) = 16
    /\ data[7] = 8
    /\ data[10] = 16

\* the number four bytes stand for, least significant byte first
FromBytes4Little(b) == b[1] + 256 * b[2] + 65536 * b[3] + 16777216 * b[4]

\* a payload that is one raster line: Z, or G with a length and a payload
IsRasterLine(payload) ==
    \/ payload = << \h5A >>
    \/ /\ Len(payload) > 3
       /\ payload[1] = \h47
       /\ payload[2] + 256 * payload[3] = Len(payload) - 3

(* C27.  The line count announced in the print information command, the     *)
(* length of the encoded data shifted right by 4, is the number of raster   *)
(* lines sent for each copy: after the configuration the transport sees,    *)
(* copy after copy, exactly that many raster lines and then one print       *)
(* command, and every copy sends the lines of the copy before it, in the    *)
(* same order.  A session that returns has sent num_copies such copies.     *)
C27_AnnouncedLinesAreSent ==
    Len(sent) >= 7 =>
        LET n == FromBytes4Little(sent[7])
            each == n + 1
        IN  /\ n * CHUNK_SIZE = Len(data)
            /\ \A j \in (PrefixSends + 1)..Len(sent) :
                  LET slot == (j - PrefixSends - 1) % each
                  IN  IF slot < n
                      THEN /\ IsRasterLine(sent[j])
                           /\ j - each > PrefixSends => sent[j] = sent[j - each]
                      ELSE sent[j] \in PrintCommands
            /\ (pc = "done" /\ num_copies >= 0) =>
                   Len(sent) = PrefixSends + num_copies * each

C27_Witness ==
    /\ pc = "done"
    /\ num_copies = 2
    /\ sent[7] = << 2, 0, 0, 0 >>
    /\ Len(sent) = PrefixSends + 6
    /\ sent[14] # sent[15]
    /\ sent[14] = sent[17]
    /\ sent[15] = sent[18]
    /\ sent[16] = << \h0C >>
    /\ sent[19] = << \h1A >>

\* the exceptions encode_png raises
EncodingErrors == { "InvalidImageHeightException", "IndexError" }

(* C28.  The image is encoded before any transport traffic: while           *)
(* print_image is still encoding nothing has been sent or received, and if  *)
(* encoding fails, as it does for every image whose height is not the row   *)
(* height of the job's tape, print_image ends with that exception having    *)
(* sent no byte to the transport and received none.                         *)
C28_EncodeBeforeTraffic ==
    /\ pc = "encode_png" => (sent = << >> /\ nrecv = 0 /\ frame = << >>)
    /\ (\/ error.class \in EncodingErrors
        \/ pc # "encode_png" /\ image.height # TAPE_MM_TO_PX[args_tape_mm])
          => /\ pc = "raised"
             /\ error.class \in EncodingErrors
             /\ sent = << >>
             /\ nrecv = 0
             /\ frame = << >>
             /\ data = << >>

C28_Witness ==
    /\ pc = "raised"
    /\ args_tape_mm = 12
    /\ image.height = 128
    /\ Len(image.columns) = 2
    /\ error.class = "InvalidImageHeightException"
    /\ sent = << >>
    /\ nrecv = 0
    /\ frame = << >>

(* C29.  With num_copies <= 0 print_image performs the handshake and sends  *)
(* the whole configuration, then returns: it never enters the body of the   *)
(* copy loop, sends no raster line and no print command, receives nothing   *)
(* after the response to the status request, and once that response is      *)
(* accepted nothing makes it raise.                                         *)
C29_NoCopiesNoPrinting ==
    num_copies <= 0 =>
        /\ pc \notin { "send_raster_data", "send_print_command",
                       "while_not_completed" }
        /\ i = 0
        /\ Len(sent) <= PrefixSends
        /\ nrecv <= 1
        /\ \A j \in 1..Len(sent) :
              sent[j] \notin PrintCommands /\ ~IsRasterLine(sent[j])
        /\ pc = "raised" => Len(sent) <= Len(HandshakeSends)
        /\ pc \in { "for_copy", "done" } =>
              /\ error = NoStatus
              /\ nrecv = 1
              /\ Len(sent) = PrefixSends
              /\ BeginsAs(Flat(sent), PrefixBytes(Len(data)))
              /\ Len(Flat(sent)) = Len(PrefixBytes(Len(data)))

C29_Witness ==
    /\ pc = "done"
    /\ num_copies = -1
    /\ Len(data) = 16
    /\ Len(sent) = PrefixSends
    /\ sent[PrefixSends] = << \h4D, \h02 >>
    /\ nrecv = 1
    /\ error = NoStatus

=============================================================================
